---- MODULE Spec2Model ----
(***************************************************************************)
(* Model of vic-catparser.py: the VICParser class (get_context,            *)
(* count_items, stream_items), the OutputFormatter and main().             *)
(*                                                                         *)
(* A source document is {"@odata.context": ctx, "value": [items]} laid out *)
(* context first.  Scan positions: 0 is the context member, 1..n are the   *)
(* array items, n+1 is the end of the document.  A malformed document has  *)
(* errAt, the position at which the ijson scanner raises (with ijson's     *)
(* read buffer that may be earlier than the position of the bad byte).     *)
(*                                                                         *)
(* Two callers drive the parser: main() (mode "main"), and a client of the *)
(* VICParser API (mode "client") that calls its three methods in any       *)
(* order, as the class permits.                                            *)
(***************************************************************************)
EXTENDS Integers, Sequences, FiniteSets, TLC

VARIABLES
    mode,           \* "main" or "client"
    src,            \* the file at file_path, as it is on disk now
    args,           \* argparse namespace: category, output, output_format, hash
    pc,             \* position of the caller
    self_context,   \* VICParser.context
    context,        \* main's local `context`
    handles,        \* names of the methods that hold an open file handle
    pos,            \* number of array items the open generator has consumed
    streamCat,      \* `category` argument of the current stream_items call
    total_items,    \* main's local `total_items`
    matches,        \* main's local `matches`
    matches_found_count,
    hash_matches_processed_count,
    console,        \* what has been printed, in order
    outfile,        \* the file at args.output: written or not, its content
    ret,            \* main's return value, Running until it returns
    truncated,      \* TRUE once the file was cut short during the run
    calls,          \* client: number of API calls made
    ctxResults,     \* history: values returned by get_context, in order
    gcOpens,        \* history: number of times get_context opened the file
    yielded,        \* history: items yielded by the current generator
    exhausted,      \* history: the current generator ran to its end
    accepted,       \* history: items that took the branch of line 155
    hashCalls,      \* history: format_hashonly calls as [item, hash_type, result]
    phases,         \* history: methods that opened the file in main's run
    raised          \* client: TRUE when the last call raised

vars == << mode, src, args, pc, self_context, context, handles, pos, streamCat,
           total_items, matches, matches_found_count,
           hash_matches_processed_count, console, outfile, ret, truncated,
           calls, ctxResults, gcOpens, yielded, exhausted, accepted,
           hashCalls, phases, raised >>

(***************************************************************************)
(* Bounds                                                                  *)
(***************************************************************************)
MaxItems == 2
MaxCalls == 2

(***************************************************************************)
(* Python values                                                           *)
(***************************************************************************)
None == << "None" >>
Str(s) == << "str", s >>
PyInt(n) == << "int", n >>
Running == << "running" >>
NoFile == [written |-> FALSE, content |-> << >>]
File(entries) == [written |-> TRUE, content |-> entries]

Dict(fields) == [type |-> "dict", val |-> fields]
Scalar(n) == [type |-> "int", val |-> [n |-> n]]

\* isinstance(item, dict)
IsDict(item) == item.type = "dict"

\* item.get(key, default) with a string-valued field
Get(item, key, default) ==
    IF key \in DOMAIN item.val THEN item.val[key] ELSE default

\* f"{item.get(key)}": the field, or the text None when it is absent
GetText(item, key) ==
    IF key \in DOMAIN item.val THEN item.val[key] ELSE "None"

\* item.get('Category') == category, for an integer category
CategoryIs(item, category) ==
    "Category" \in DOMAIN item.val /\ item.val["Category"] = category

(***************************************************************************)
(* Inputs                                                                  *)
(***************************************************************************)
Item1 == Dict([Category |-> 1, MD5 |-> "", SHA1 |-> "abc123"])
Item2 == Dict([Category |-> 1, MD5 |-> "d41d8c", PhotoDNA |-> "pdna"])
Item3 == Dict([Category |-> 2, SHA1 |-> "", PhotoDNA |-> ""])
Item4 == Scalar(7)
Item5 == Dict([MD5 |-> "9e107d"])
Items == {Item1, Item2, Item3, Item4, Item5}

Categories == {1, 2}
HashTypes == {"md5", "sha1", "photodna"}
Formats == {"json", "readable", "hashonly"}
Outputs == {None, Str("out.txt")}
ContextFields == {None, Str(""), Str("ctx")}

SeqsUpTo(S, n) == UNION {[1..k -> S] : k \in 0..n}

\* a well-formed document has valid = TRUE and errAt = 0
Docs ==
    {[exists |-> TRUE, ctx |-> c, items |-> its, valid |-> TRUE, errAt |-> 0] :
        c \in ContextFields, its \in SeqsUpTo(Items, MaxItems)}
    \cup
    UNION {{[exists |-> TRUE, ctx |-> c, items |-> its, valid |-> FALSE,
              errAt |-> e] : c \in ContextFields, e \in 0..(Len(its) + 1)} :
           its \in SeqsUpTo(Items, MaxItems)}

MissingDoc ==
    [exists |-> FALSE, ctx |-> None, items |-> << >>, valid |-> TRUE, errAt |-> 0]

\* --hash defaults to md5 and is ignored unless the format is hashonly
ArgSets ==
    {a \in [category : Categories, output : Outputs,
            output_format : Formats, hash : HashTypes] :
        a.output_format # "hashonly" => a.hash = "md5"}

DefaultArgs ==
    [category |-> 1, output |-> None, output_format |-> "json", hash |-> "md5"]

(***************************************************************************)
(* VICParser                                                               *)
(***************************************************************************)
\* the ijson scanner raises when it reaches position p of a malformed document
RaisesBy(doc, p) == ~doc.valid /\ doc.errAt <= p

LastPos(doc) == Len(doc.items) + 1

\* get_context, lines 23-29: scan for the prefix '@odata.context', stop at
\* the first event that carries it; a scan that finds none reads to the end
ScanContext(doc) ==
    IF RaisesBy(doc, 0) THEN [raised |-> TRUE, value |-> None]
    ELSE IF doc.ctx # None THEN [raised |-> FALSE, value |-> doc.ctx]
    ELSE IF RaisesBy(doc, LastPos(doc)) THEN [raised |-> TRUE, value |-> None]
    ELSE [raised |-> FALSE, value |-> None]

\* count_items, lines 34-38
ScanCount(doc) ==
    IF RaisesBy(doc, LastPos(doc)) THEN [raised |-> TRUE, count |-> 0]
    ELSE [raised |-> FALSE, count |-> Len(doc.items)]

\* line 48 without the comparison of the category
StreamPredicateAnyRecord(item, category) ==
    category = None \/ IsDict(item)

\* stream_items, line 48: category is None or PyInt(c)
StreamPredicate(item, category) ==
    category = None \/ (IsDict(item) /\ CategoryIs(item, category[2]))

\* lines 46-49 with the scanner's error taken for the end of the array
RECURSIVE NextYieldSwallow(_, _, _)
NextYieldSwallow(doc, category, p) ==
    IF RaisesBy(doc, p + 1) THEN [kind |-> "stop", pos |-> p]
    ELSE IF p = Len(doc.items) THEN [kind |-> "stop", pos |-> p]
    ELSE IF StreamPredicate(doc.items[p + 1], category)
         THEN [kind |-> "yield", pos |-> p + 1]
         ELSE NextYieldSwallow(doc, category, p + 1)

\* one next() on the generator of stream_items, lines 46-49, resumed after
\* p items: runs to the next yield, to the end of the array, or to the error
RECURSIVE NextYield(_, _, _)
NextYield(doc, category, p) ==
    IF RaisesBy(doc, p + 1) THEN [kind |-> "raise", pos |-> p]
    ELSE IF p = Len(doc.items) THEN [kind |-> "stop", pos |-> p]
    ELSE IF StreamPredicate(doc.items[p + 1], category)
         THEN [kind |-> "yield", pos |-> p + 1]
         ELSE NextYield(doc, category, p + 1)

(***************************************************************************)
(* OutputFormatter                                                         *)
(***************************************************************************)
hash_map == [md5 |-> "MD5", sha1 |-> "SHA1", photodna |-> "PhotoDNA"]

\* line 90 without the test of hash_value
format_hashonlyUnchecked(item, hash_type) ==
    Str(Get(item, hash_map[hash_type], "") \o "\n")

\* format_hashonly, lines 84-90
format_hashonly(item, hash_type) ==
    LET hash_value == Get(item, hash_map[hash_type], "")
    IN  IF hash_value # "" THEN Str(hash_value \o "\n") ELSE None

\* format_readable, lines 57-70 (the items of this model carry no Exifs)
format_readable(item) ==
    "----------------------------------------\n"
    \o "MediaID: " \o GetText(item, "MediaID") \o "\n"
    \o "MD5: " \o GetText(item, "MD5") \o "\n"
    \o "SHA1: " \o GetText(item, "SHA1") \o "\n"
    \o "PhotoDNA: " \o GetText(item, "PhotoDNA") \o "\n"
    \o "MediaSize: " \o GetText(item, "MediaSize") \o "\n"
    \o "DateUpdated: " \o GetText(item, "DateUpdated") \o "\n"
    \o "\n\n"

\* json.dumps of the context value: None is null, a string is quoted
DumpsScalar(v) ==
    IF v = None THEN "null" ELSE "\"" \o v[2] \o "\""

\* lines 95-99 with `context or ""` for the context member
format_jsonNoNull(items, ctx) ==
    [odata_context |-> DumpsScalar(IF ctx = None THEN Str("") ELSE ctx),
     value |-> items]

\* format_json, lines 95-99, and the document of write_json_file, lines
\* 104-109: the object with the two members in this order
format_json(items, ctx) ==
    [odata_context |-> DumpsScalar(ctx), value |-> items]

(***************************************************************************)
(* Initial state: before `VICParser(Path(args.json_file))`                 *)
(***************************************************************************)
Init ==
    /\ mode \in {"main", "client"}
    /\ src \in Docs \cup {MissingDoc}
    /\ args \in IF mode = "main" THEN ArgSets ELSE {DefaultArgs}
    /\ pc = "start"
    /\ self_context = None
    /\ context = None
    /\ handles = {}
    /\ pos = 0
    /\ streamCat = None
    /\ total_items = 0
    /\ matches = << >>
    /\ matches_found_count = 0
    /\ hash_matches_processed_count = 0
    /\ console = << >>
    /\ outfile = NoFile
    /\ ret = Running
    /\ truncated = FALSE
    /\ calls = 0
    /\ ctxResults = << >>
    /\ gcOpens = 0
    /\ yielded = << >>
    /\ exhausted = FALSE
    /\ accepted = << >>
    /\ hashCalls = {}
    /\ phases = << >>
    /\ raised = FALSE

Status(text) == [kind |-> "status", out |-> text]

\* the order in which the methods open the file during a run of main
LogPhase(name) == IF mode = "main" THEN Append(phases, name) ELSE phases

\* `with open(...)` entered and left
OpenHandle(hs, name) == hs \cup {name}
\* open(...) without the with block: the handle stays open
CloseHandleLeak(hs, name) == hs
CloseHandle(hs, name) == hs \ {name}

\* the value main returns from its except clauses, lines 200-205
HandlerReturn == 1

mainLocals == << total_items, matches, matches_found_count,
                 hash_matches_processed_count, outfile, accepted, hashCalls >>
clientLocals == << calls >>
fixed == << mode, args >>

\* an exception leaves the method: main's except clause prints and returns,
\* the client catches it and goes on
Raise ==
    IF mode = "main"
    THEN /\ console' = Append(console, [kind |-> "error", out |-> "Error"])
         /\ ret' = PyInt(HandlerReturn)
         /\ pc' = "done"
         /\ raised' = TRUE
    ELSE /\ raised' = TRUE
         /\ pc' = "client"
         /\ UNCHANGED << console, ret >>

\* VICParser.__init__, lines 15-18, called at line 137
Construct ==
    /\ pc = "start"
    /\ IF src.exists
       THEN /\ pc' = IF mode = "main" THEN "get_context" ELSE "client"
            /\ UNCHANGED << console, ret, raised >>
       ELSE /\ console' = IF mode = "main"
                          THEN Append(console, [kind |-> "error", out |-> "Error"])
                          ELSE console
            /\ ret' = IF mode = "main" THEN PyInt(HandlerReturn) ELSE ret
            /\ pc' = "done"
            /\ raised' = TRUE
    /\ self_context' = None
    /\ UNCHANGED << fixed, src, context, handles, pos, streamCat, mainLocals,
                    truncated, calls, ctxResults, gcOpens, yielded, exhausted, phases >>

\* get_context returns v: to line 141 of main, or to the client
ReturnContext(v) ==
    /\ ctxResults' = Append(ctxResults, v)
    /\ IF mode = "main"
       THEN context' = v /\ pc' = "count_items"
       ELSE context' = context /\ pc' = "client"

\* get_context, line 22 false: the cached value is returned
GetContextCached ==
    /\ pc = "get_context"
    /\ self_context # None
    /\ ReturnContext(self_context)
    /\ UNCHANGED << fixed, src, self_context, handles, pos, streamCat,
                    mainLocals, console, ret, truncated, calls, gcOpens,
                    yielded, exhausted, phases, raised >>

\* get_context, lines 22-23: nothing cached, the file is opened
GetContextOpen ==
    /\ pc = "get_context"
    /\ self_context = None
    /\ handles' = OpenHandle(handles, "get_context")
    /\ gcOpens' = gcOpens + 1
    /\ phases' = LogPhase("get_context")
    /\ pc' = "get_context_scan"
    /\ UNCHANGED << fixed, src, self_context, context, pos, streamCat,
                    mainLocals, console, ret, truncated, calls, ctxResults,
                    yielded, exhausted, raised >>

\* get_context, lines 25-30: the scan, the exit of the with block, the return
GetContextScan ==
    /\ pc = "get_context_scan"
    /\ handles' = CloseHandle(handles, "get_context")
    /\ LET r == ScanContext(src)
       IN  IF r.raised
           THEN /\ Raise
                /\ UNCHANGED << self_context, context, ctxResults >>
           ELSE /\ self_context' = r.value
                /\ ReturnContext(r.value)
                /\ UNCHANGED << console, ret, raised >>
    /\ UNCHANGED << fixed, src, pos, streamCat, mainLocals, truncated, calls,
                    gcOpens, yielded, exhausted, phases >>

\* count_items, lines 34-35, after the print of line 144 in main
CountOpen ==
    /\ pc = "count_items"
    /\ handles' = OpenHandle(handles, "count_items")
    /\ phases' = LogPhase("count_items")
    /\ console' = IF mode = "main"
                  THEN Append(console, Status("Counting total items"))
                  ELSE console
    /\ pc' = "count_scan"
    /\ UNCHANGED << fixed, src, self_context, context, pos, streamCat,
                    mainLocals, ret, truncated, calls, ctxResults, gcOpens,
                    yielded, exhausted, raised >>

\* count_items, lines 36-38, and lines 145-151 of main
CountScan ==
    /\ pc = "count_scan"
    /\ handles' = CloseHandle(handles, "count_items")
    /\ LET r == ScanCount(src)
       IN  IF r.raised
           THEN /\ Raise
                /\ UNCHANGED << total_items, streamCat, yielded, exhausted >>
           ELSE IF mode = "main"
           THEN /\ total_items' = r.count
                /\ console' = Append(console, Status("Searching items"))
                /\ streamCat' = None
                /\ yielded' = << >>
                /\ exhausted' = FALSE
                /\ pc' = "stream_open"
                /\ UNCHANGED << ret, raised >>
           ELSE /\ pc' = "client"
                /\ UNCHANGED << total_items, streamCat, yielded, exhausted,
                                console, ret, raised >>
    /\ UNCHANGED << fixed, src, self_context, context, pos, matches,
                    matches_found_count, hash_matches_processed_count,
                    outfile, accepted, hashCalls, truncated, calls, ctxResults,
                    gcOpens, phases >>

\* stream_items, line 46: the first next() of the generator opens the file
StreamOpen ==
    /\ pc = "stream_open"
    /\ handles' = OpenHandle(handles, "stream_items")
    /\ phases' = LogPhase("stream_items")
    /\ pos' = 0
    /\ pc' = "stream_next"
    /\ UNCHANGED << fixed, src, self_context, context, streamCat, mainLocals,
                    console, ret, truncated, calls, ctxResults, gcOpens,
                    yielded, exhausted, raised >>

\* main, line 155
MainPredicate(item, category) == IsDict(item) /\ CategoryIs(item, category)

\* line 159 with the readable format collected as well
CollectsReadable(a) ==
    a.output # None \/ a.output_format \in {"json", "readable"}

\* main, line 159: matches are kept for later, not printed right away
Collects(a) == a.output # None \/ a.output_format = "json"

\* main, lines 155-170: the body of the for loop for one yielded item
Body(item) ==
    IF MainPredicate(item, args.category)
    THEN /\ matches_found_count' = matches_found_count + 1
         /\ accepted' = Append(accepted, item)
         /\ IF Collects(args)
            THEN /\ matches' = Append(matches, item)
                 /\ UNCHANGED << console, hashCalls >>
            ELSE /\ matches' = matches
                 /\ IF args.output_format = "readable"
                    THEN /\ console' = Append(console,
                               [kind |-> "readable", out |-> format_readable(item)])
                         /\ UNCHANGED hashCalls
                    ELSE LET hash_line == format_hashonly(item, args.hash)
                         IN  /\ hashCalls' = hashCalls \cup
                                   {[item |-> item, hash_type |-> args.hash,
                                     result |-> hash_line]}
                             /\ console' = IF hash_line # None
                                           THEN Append(console,
                                               [kind |-> "hash", out |-> hash_line[2]])
                                           ELSE console
    ELSE UNCHANGED << matches_found_count, accepted, matches, console, hashCalls >>

\* one iteration of `for item in vic_parser.stream_items(...)`: next() on the
\* generator, then the caller's loop body
StreamNext ==
    /\ pc = "stream_next"
    /\ LET r == NextYield(src, streamCat, pos)
       IN  /\ pos' = r.pos
           /\ CASE r.kind = "raise" ->
                    /\ handles' = CloseHandle(handles, "stream_items")
                    /\ Raise
                    /\ UNCHANGED << yielded, exhausted, matches_found_count,
                                    accepted, matches, hashCalls >>
                [] r.kind = "stop" ->
                    /\ handles' = CloseHandle(handles, "stream_items")
                    /\ pc' = IF mode = "main" THEN "summary" ELSE "client"
                    /\ exhausted' = TRUE
                    /\ UNCHANGED << yielded, matches_found_count, accepted,
                                    matches, hashCalls, console, ret, raised >>
                [] r.kind = "yield" ->
                    /\ yielded' = Append(yielded, src.items[r.pos])
                    /\ pc' = "stream_next"
                    /\ IF mode = "main"
                       THEN Body(src.items[r.pos])
                       ELSE UNCHANGED << matches_found_count, accepted,
                                         matches, hashCalls, console >>
                    /\ UNCHANGED << handles, exhausted, ret, raised >>
    /\ UNCHANGED << fixed, src, self_context, context, streamCat, total_items,
                    hash_matches_processed_count, outfile, truncated, calls,
                    ctxResults, gcOpens, phases >>

\* main, line 172
Summary ==
    /\ pc = "summary"
    /\ console' = Append(console,
           [kind |-> "summary", out |-> "Found", n |-> matches_found_count])
    /\ pc' = "output"
    /\ UNCHANGED << fixed, src, self_context, context, handles, pos, streamCat,
                    mainLocals, ret, truncated, calls, ctxResults, gcOpens,
                    yielded, exhausted, phases, raised >>

\* line 175 without `and matches`
WritesFileEmpty(a, ms) == a.output # None

\* main, line 175
WritesFile(a, ms) == a.output # None /\ ms # << >>

\* main, lines 183-188: the hash lines of the matches that have one
HashLines(ms, hash_type) ==
    SelectSeq([i \in 1..Len(ms) |-> format_hashonly(ms[i], hash_type)],
              LAMBDA line : line # None)

\* main, lines 175-194
Output ==
    /\ pc = "output"
    /\ IF WritesFile(args, matches)
       THEN /\ console' = console \o << Status("Writing results"),
                                         Status("Results have been saved") >>
            /\ CASE args.output_format = "readable" ->
                     /\ outfile' = File([i \in 1..Len(matches) |->
                            [kind |-> "readable", out |-> format_readable(matches[i])]])
                     /\ UNCHANGED << hash_matches_processed_count, hashCalls >>
                 [] args.output_format = "hashonly" ->
                     LET lines == HashLines(matches, args.hash)
                     IN  /\ outfile' = File([i \in 1..Len(lines) |->
                                [kind |-> "hash", out |-> lines[i][2]]])
                         /\ hash_matches_processed_count' =
                                hash_matches_processed_count + Len(lines)
                         /\ hashCalls' = hashCalls \cup
                                {[item |-> matches[i], hash_type |-> args.hash,
                                  result |-> format_hashonly(matches[i], args.hash)] :
                                    i \in 1..Len(matches)}
                 [] args.output_format = "json" ->
                     /\ outfile' = File(<< [kind |-> "json",
                                       out |-> format_json(matches, context)] >>)
                     /\ UNCHANGED << hash_matches_processed_count, hashCalls >>
       ELSE /\ console' = IF args.output_format = "json"
                          THEN Append(console, [kind |-> "json",
                                   out |-> format_json(matches, context)])
                          ELSE console
            /\ UNCHANGED << outfile, hash_matches_processed_count, hashCalls >>
    /\ pc' = "warn"
    /\ UNCHANGED << fixed, src, self_context, context, handles, pos, streamCat,
                    total_items, matches, matches_found_count, accepted, ret,
                    truncated, calls, ctxResults, gcOpens, yielded, exhausted, phases,
                    raised >>

\* main, lines 197-198 and the return of line 207
Finish ==
    /\ pc = "warn"
    /\ console' = IF /\ args.output_format = "hashonly"
                     /\ hash_matches_processed_count < matches_found_count
                  THEN Append(console, [kind |-> "warning", out |-> "Warning",
                           n |-> matches_found_count - hash_matches_processed_count])
                  ELSE console
    /\ ret' = PyInt(0)
    /\ pc' = "done"
    /\ UNCHANGED << fixed, src, self_context, context, handles, pos, streamCat,
                    mainLocals, truncated, calls, ctxResults, gcOpens, yielded, exhausted,
                    phases, raised >>

\* every method opens file_path anew (lines 23, 35, 46), so it reads what is
\* on disk at that time: before a pass opens the file another process may
\* have cut it short
Truncate ==
    /\ pc \in {"get_context", "count_items", "stream_open", "client"}
    /\ handles = {}
    /\ src.valid
    /\ src' \in {d \in Docs : d.ctx = src.ctx /\ d.items = src.items /\ ~d.valid}
    /\ truncated' = TRUE
    /\ UNCHANGED << fixed, pc, self_context, context, pos, streamCat, handles,
                    mainLocals, console, ret, calls, ctxResults, gcOpens,
                    yielded, exhausted, phases, raised >>

\* the client calls get_context()
ClientGetContext ==
    /\ pc = "client"
    /\ calls < MaxCalls
    /\ calls' = calls + 1
    /\ raised' = FALSE
    /\ pc' = "get_context"
    /\ UNCHANGED << fixed, src, self_context, context, handles, pos, streamCat,
                    mainLocals, console, ret, truncated, ctxResults, gcOpens,
                    yielded, exhausted, phases >>

\* the client calls count_items()
ClientCountItems ==
    /\ pc = "client"
    /\ calls < MaxCalls
    /\ calls' = calls + 1
    /\ raised' = FALSE
    /\ pc' = "count_items"
    /\ UNCHANGED << fixed, src, self_context, context, handles, pos, streamCat,
                    mainLocals, console, ret, truncated, ctxResults, gcOpens,
                    yielded, exhausted, phases >>

\* the client calls stream_items(category) and iterates over the result
ClientStreamItems ==
    /\ pc = "client"
    /\ calls < MaxCalls
    /\ calls' = calls + 1
    /\ raised' = FALSE
    /\ \E c \in {None} \cup {PyInt(k) : k \in Categories} : streamCat' = c
    /\ yielded' = << >>
    /\ exhausted' = FALSE
    /\ pc' = "stream_open"
    /\ UNCHANGED << fixed, src, self_context, context, handles, pos,
                    mainLocals, console, ret, truncated, ctxResults, gcOpens,
                    phases >>

Next ==
    \/ Construct
    \/ GetContextCached
    \/ GetContextOpen
    \/ GetContextScan
    \/ CountOpen
    \/ CountScan
    \/ StreamOpen
    \/ StreamNext
    \/ Summary
    \/ Output
    \/ Finish
    \/ Truncate
    \/ ClientGetContext
    \/ ClientCountItems
    \/ ClientStreamItems

Spec == Init /\ [][Next]_vars

(***************************************************************************)
(* Vocabulary of the properties                                            *)
(***************************************************************************)
\* a structured record whose Category field equals c
RecordOfCategory(item, c) ==
    /\ item.type = "dict"
    /\ "Category" \in DOMAIN item.val
    /\ item.val["Category"] = c

\* the subsequence of s made of the records of category c
RecordsOfCategory(s, c) == SelectSeq(s, LAMBDA item : RecordOfCategory(item, c))

Prefix(s, n) == SubSeq(s, 1, n)

FieldOfKind(kind) ==
    CASE kind = "md5" -> "MD5" [] kind = "sha1" -> "SHA1" [] kind = "photodna" -> "PhotoDNA"

\* the selected hash field of the record is empty or absent
HashMissing(item, kind) ==
    \/ FieldOfKind(kind) \notin DOMAIN item.val
    \/ item.val[FieldOfKind(kind)] = ""

Kinds(entries) == {entries[i].kind : i \in 1..Len(entries)}

\* the entries of the console or of the file that are part of the result
ResultKinds == {"readable", "hash", "json"}
Results(entries) == SelectSeq(entries, LAMBDA e : e.kind \in ResultKinds)

MainRun == mode = "main"
Success == mode = "main" /\ pc = "done" /\ ret = PyInt(0)
Streaming == args.output = None /\ args.output_format \in {"readable", "hashonly"}

\* a JSON scalar read back: null, or the text between the quotes
DecodeScalar(text) ==
    IF text = "null" THEN None ELSE Str(SubSeq(text, 2, Len(text) - 1))

(***************************************************************************)
(* C1: at the end of every successful hash-only run, streamed or written   *)
(* to a file, matches_found_count - hash_matches_processed_count equals    *)
(* the number of matched records whose selected hash field is empty or     *)
(* absent, and the warning is printed exactly when that number is > 0.     *)
(***************************************************************************)
C1_OmissionCount ==
    (Success /\ args.output_format = "hashonly") =>
        LET omitted == matches_found_count - hash_matches_processed_count
            matched == RecordsOfCategory(src.items, args.category)
            missing == SelectSeq(matched, LAMBDA item : HashMissing(item, args.hash))
        IN  /\ omitted = Len(missing)
            /\ ("warning" \in Kinds(console)) <=> (omitted > 0)

(***************************************************************************)
(* C2: the records accepted by the filtering pass, by stream_items(c) and  *)
(* by the inline filter of main, are exactly the array items that are      *)
(* records of category c, in source order, duplicates kept, and            *)
(* matches_found_count is their number.                                    *)
(***************************************************************************)
C2_FilterExact ==
    /\ (mode = "client" /\ streamCat # None /\ pc = "stream_next") =>
            yielded = RecordsOfCategory(Prefix(src.items, pos), streamCat[2])
    /\ (mode = "client" /\ streamCat # None /\ exhausted) =>
            yielded = RecordsOfCategory(src.items, streamCat[2])
    /\ (mode = "main" /\ pc = "stream_next") =>
            /\ accepted = RecordsOfCategory(Prefix(src.items, pos), args.category)
            /\ matches_found_count = Len(accepted)
    /\ (mode = "main" /\ (pc \in {"summary", "output", "warn"} \/ Success)) =>
            /\ accepted = RecordsOfCategory(src.items, args.category)
            /\ matches_found_count = Len(accepted)
            /\ Collects(args) => matches = accepted

C2_Witness ==
    /\ Success
    /\ Len(accepted) >= 2
    /\ accepted[1] # accepted[2]
    /\ matches_found_count = Len(accepted)

(***************************************************************************)
(* C3: whatever the predicate of stream_items, a category or None, every   *)
(* item it yields is a structured record.                                  *)
(***************************************************************************)
C3_YieldsOnlyRecords ==
    \A i \in 1..Len(yielded) : yielded[i].type = "dict"

(***************************************************************************)
(* C4: in every successful json run exactly one envelope is emitted, its   *)
(* context member is the value get_context returned (null when the field   *)
(* is absent from the source) and its value array is the MatchSet: the     *)
(* matching records in source order.                                       *)
(***************************************************************************)
C4_Envelope ==
    (Success /\ args.output_format = "json") =>
        LET emitted == Results(console) \o
                       Results(outfile.content)
        IN  /\ Len(emitted) = 1
            /\ emitted[1].kind = "json"
            /\ Len(ctxResults) = 1
            /\ DecodeScalar(emitted[1].out.odata_context) = ctxResults[1]
            /\ DecodeScalar(emitted[1].out.odata_context) = src.ctx
            /\ emitted[1].out.value = matches
            /\ emitted[1].out.value = RecordsOfCategory(src.items, args.category)

C4_Witness ==
    /\ Success
    /\ args.output_format = "json"
    /\ src.ctx = None
    /\ Len(matches) >= 2
    /\ matches[1] # matches[2]
    /\ "json" \in Kinds(console)

(***************************************************************************)
(* C5: once a get_context call has returned, found or not found, no later  *)
(* get_context call opens the source again, and all calls return the same  *)
(* value.                                                                  *)
(***************************************************************************)
C5_NoRescan ==
    [][Len(ctxResults) >= 1 => gcOpens' = gcOpens]_vars

(***************************************************************************)
(* C6: a run over a malformed source ends with the error message and the   *)
(* return value 1; it never reaches the summary, never returns 0, never    *)
(* writes the output file, and what was printed for the matches before the *)
(* error stays printed.                                                    *)
(***************************************************************************)
C6_MalformedFails ==
    MainRun =>
        /\ raised =>
              /\ pc = "done"
              /\ ret # PyInt(0)
              /\ ret = PyInt(1)
              /\ outfile = NoFile
              /\ console # << >>
              /\ console[Len(console)].kind = "error"
              /\ "summary" \notin Kinds(console)
              /\ (Streaming /\ args.output_format = "readable") =>
                     Len(Results(console)) = Len(accepted)
        /\ (src.exists /\ ~src.valid /\ ~truncated) =>
              /\ pc \notin {"summary", "output", "warn"}
              /\ pc = "done" => raised
        /\ (pc \in {"summary", "output", "warn"} \/ ret = PyInt(0)) =>
              (src.valid /\ ~raised)

C6_Witness ==
    /\ MainRun
    /\ raised
    /\ pc = "done"
    /\ ~src.valid
    /\ "stream_items" \in {phases[i] : i \in 1..Len(phases)}
    /\ Len(Results(console)) >= 1

(***************************************************************************)
(* C7: in a run of main the file is opened by get_context, then by         *)
(* count_items, then by stream_items, never by two at once, each after the *)
(* previous one has closed it, and the summary and the warning are printed *)
(* only after the filtering pass has consumed the whole array.             *)
(***************************************************************************)
PhaseOrder == << "get_context", "count_items", "stream_items" >>

C7_Phases ==
    MainRun =>
        /\ Cardinality(handles) <= 1
        /\ Len(phases) <= 3
        /\ phases = Prefix(PhaseOrder, Len(phases))
        /\ handles # {} => handles = {phases[Len(phases)]}
        /\ pc = "stream_open" => pos = 0
        /\ pc = "stream_next" => yielded = Prefix(src.items, pos)
        /\ ({"summary", "warning"} \cap Kinds(console) # {}) =>
              /\ handles = {}
              /\ phases = PhaseOrder
              /\ exhausted
              /\ pos = Len(src.items)
              /\ yielded = src.items

C7_Witness ==
    /\ Success
    /\ phases = PhaseOrder
    /\ "summary" \in Kinds(console)
    /\ Len(src.items) >= 2

(***************************************************************************)
(* C8: format_hashonly returns the selected field followed by a newline    *)
(* when the field is a non-empty string, and None when it is the empty     *)
(* string or absent; for MD5 = "" and SHA1 = "abc123", md5 gives None and  *)
(* sha1 gives "abc123\n".                                                  *)
(***************************************************************************)
C8_HashOnly ==
    \A c \in hashCalls :
        /\ HashMissing(c.item, c.hash_type) => c.result = None
        /\ ~HashMissing(c.item, c.hash_type) =>
              c.result = Str(c.item.val[FieldOfKind(c.hash_type)] \o "\n")
        /\ (c.item = Item1 /\ c.hash_type = "md5") => c.result = None
        /\ (c.item = Item1 /\ c.hash_type = "sha1") => c.result = Str("abc123\n")

C8_Witness ==
    /\ \E c \in hashCalls : c.item = Item1 /\ c.hash_type = "sha1"
    /\ \E c \in hashCalls : c.result = None

(***************************************************************************)
(* C9: in a run that streams to the console (readable or hashonly, no      *)
(* output file) the matches list is empty in every state, and each match   *)
(* is on the console before the next item is read.                         *)
(***************************************************************************)
C9_StreamingKeepsNothing ==
    (MainRun /\ Streaming) =>
        /\ matches = << >>
        /\ outfile = NoFile
        /\ pc = "stream_next" =>
              accepted = RecordsOfCategory(Prefix(src.items, pos), args.category)
        /\ args.output_format = "readable" =>
              Len(Results(console)) = Len(accepted)
        /\ args.output_format = "hashonly" =>
              Len(Results(console)) =
                  Len(SelectSeq(accepted, LAMBDA item : ~HashMissing(item, args.hash)))

C9_Witness ==
    /\ MainRun
    /\ Streaming
    /\ pc = "stream_next"
    /\ pos < Len(src.items)
    /\ Len(accepted) >= 1
    /\ Len(Results(console)) >= 1

(***************************************************************************)
(* C10: in a successful run the output file is written exactly when an     *)
(* output path was given and at least one record matched; with a path and  *)
(* no match no file is written and, in json format, the empty envelope is  *)
(* printed; with a path and a match no part of the result is printed.      *)
(***************************************************************************)
C10_FileIff ==
    MainRun =>
        /\ outfile # NoFile => (args.output # None /\ matches_found_count >= 1)
        /\ Success =>
              /\ (outfile # NoFile) <=>
                     (args.output # None /\ matches_found_count >= 1)
              /\ (/\ args.output # None /\ matches_found_count = 0
                  /\ args.output_format = "json") =>
                     /\ Len(Results(console)) = 1
                     /\ Results(console)[1].kind = "json"
                     /\ Results(console)[1].out.value = << >>
              /\ (args.output # None /\ matches_found_count = 0
                     /\ args.output_format # "json") => Results(console) = << >>
              /\ (args.output # None /\ matches_found_count >= 1) =>
                     Results(console) = << >>

C10_Witness ==
    /\ Success
    /\ args.output # None
    /\ matches_found_count = 0
    /\ args.output_format = "json"
    /\ Len(src.items) >= 1
    /\ outfile = NoFile

====
